---- MODULE Spec2Model ----
(***************************************************************************)
(* Model of ESP_WiFiManager.cpp (ESP_WiFiManager v1.0.6): the network scan *)
(* consolidation done by scanWifiNetworks, the RSSI-to-quality mapping,    *)
(* the ownership of the scan index buffers, and the service loop of        *)
(* startConfigPortal with its page handlers.                               *)
(*                                                                         *)
(* Index values are kept as in the source: 0-based indices into the        *)
(* platform's scan table, -1 for an excluded slot.  TLA+ sequences are     *)
(* 1-based, so slot i of the C array is element i+1 of the sequence.       *)
(***************************************************************************)
EXTENDS Integers, Sequences, FiniteSets, TLC

\* ------------------------------------------------------------------ bounds
\* Largest number of access points one platform scan reports.
MaxNetworks == 3
\* RSSI inputs of getRSSIasQuality are drawn from -RSSISpan .. 0.
RSSISpan == 130

\* Number of buffers the heap hands out before malloc starts to fail.
MaxBufs == 3
\* millis() is observed every TickMs milliseconds, MaxTicks times at most.
MaxTicks == 4
TickMs == 20 * 1000

\* --------------------------------------------------------------- constants
\* DEFAULT_PORTAL_TIMEOUT (ms) of ESP_WiFiManager.h, the value handleWifiSave
\* and handleServerClose put back into _configPortalTimeout
DEFAULT_PORTAL_TIMEOUT == 60000
\* indices[j] = -1 : the slot is excluded
SENTINEL == -1
\* a NULL password pointer; any other password is modelled by its strlen
NoPassword == -1
\* the save callback is counted up to this many invocations
MaxCallbacks == 2
\* WIFI_SCAN_FAILED, the smallest value WiFi.scanNetworks() returns
WIFI_SCAN_FAILED == -2

\* The RSSI values and SSIDs a scan snapshot is built from.  "" is a hidden
\* network; it is also what WiFi.SSID() answers for an index out of range.
RSSIValues == {-100, -75, -50}
SSIDValues == {"", "A", "B"}
QualityFloors == {-1, 0, 50, 51}
Network == [ssid : SSIDValues, rssi : RSSIValues]

VARIABLES
  \* --- one call of scanWifiNetworks, phase by phase
  networks,            \* the platform's scan table (WiFi.SSID(i), WiFi.RSSI(i))
  scanCount,           \* what WiFi.scanNetworks() returns (may be negative)
  mallocOK,            \* whether malloc(n * sizeof(int)) succeeds
  minimumQuality,      \* _minimumQuality
  removeDuplicateAPs,  \* _removeDuplicateAPs
  phase,               \* position inside scanWifiNetworks
  indices,             \* the index buffer (<<>> while not allocated)
  ptrSet,              \* whether *indicesptr was assigned
  retN,                \* the value returned
  jsonPage,            \* the JSON array handleScan builds from the result
  \* --- one call of getRSSIasQuality
  rssiIn, qualityOut, qualityDone,
  \* --- the manager: startConfigPortal, its handlers and the heap
  pc,                  \* position of the sketch / of startConfigPortal
  now,                 \* millis()
  configPortalStart,   \* _configPortalStart
  configPortalTimeout, \* _configPortalTimeout (ms)
  configuredTimeout,   \* the value setConfigPortalTimeout() stored last
  connect,             \* the connect flag set by handleWifiSave
  stopConfigPortal,    \* the stop flag
  TimedOut,            \* local of startConfigPortal
  shouldBreakAfterConfig,
  wifiStatus,          \* WiFi.status()
  exitBy,              \* how the service loop was left
  served,              \* the pages handled since setupConfigPortal
  nextBuf,             \* identity of the next buffer malloc hands out
  bufFrees,            \* per buffer: how often it was free()d
  bufData,             \* per buffer: its slots
  networkIndices,      \* the member pointer (NULL or a buffer)
  numberOfNetworks,    \* the member set by handleWifi
  wildFree,            \* free() was called on a pointer malloc never returned
  lastScan,            \* what the latest handleWifi / handleScan did
  savecallback,        \* whether _savecallback is set (not NULL)
  saveCallbacks,       \* how often _savecallback ran in this portal session
  submitted,           \* a /wifisave form arrived and was not yet tried
  fallbackAttempts,    \* WiFi.begin() calls made after the service loop
  apPassword,          \* the argument apPassword of startConfigPortal:
                       \* NoPassword (NULL) or its strlen
  apPasswordMember,    \* the member _apPassword, likewise
  softAP,              \* the soft access point: "off", "open" or "secured"
  apcallback,          \* whether _apcallback is set (not NULL)
  apCallbacks,         \* how often _apcallback ran
  wifiMode,            \* WiFi.mode(): "STA", "AP" or "AP_STA"
  httpServer,          \* server: "none", "running" or "released" (stop, reset)
  dnsServer,           \* dnsServer, likewise
  apCallbackEarly,     \* no server was running whenever _apcallback ran
  portalResult,        \* what startConfigPortal returned ("none" before)
  \* --- one call of autoConnect
  acPhase,             \* "off", "polling", "connected" (returned true from a
                       \* poll) or "returned" (returned the portal's result)
  acStartedAt,         \* local startedAt
  acResult,            \* the value autoConnect returned
  \* --- one call of getRFC952_hostname
  iHostname,           \* the argument, a sequence of characters
  RFC952_hostname,     \* the member buffer, as the C string it holds
  hostDone,
  \* --- one custom parameter: its constructor, then /wifisave
  pLength,             \* _length
  pValue,              \* the buffer _value, _length + 1 characters
  pArg,                \* the default value, then the value the form submits
  pPhase,              \* "off", "new", "constructed" or "saved"
  \* --- the parameter array of the manager
  paramsCount,         \* _paramsCount
  max_params,          \* _max_params
  paramsSlots,         \* slots the array _params really has (0: _params is NULL)
  params,              \* the parameters stored in the slots written so far
  addResult,           \* what the latest addParameter returned ("none" before)
  paramsOverrun        \* addParameter wrote outside the allocated array

scanVars == <<networks, scanCount, mallocOK, minimumQuality, removeDuplicateAPs,
              phase, indices, ptrSet, retN, jsonPage>>
qualVars == <<rssiIn, qualityOut, qualityDone>>
timeVars == <<now, configPortalStart, configPortalTimeout, configuredTimeout>>
loopVars == <<pc, connect, stopConfigPortal, TimedOut, shouldBreakAfterConfig,
              wifiStatus, exitBy, served>>
heapVars == <<nextBuf, bufFrees, bufData, networkIndices, numberOfNetworks,
              wildFree, lastScan>>
sessVars == <<savecallback, saveCallbacks, submitted, fallbackAttempts>>
apVars == <<apPassword, apPasswordMember, softAP, apcallback, apCallbacks>>
autoVars == <<acPhase, acStartedAt, acResult>>
hostVars == <<iHostname, RFC952_hostname, hostDone>>
paramVars == <<pLength, pValue, pArg, pPhase>>
addVars == <<paramsCount, max_params, paramsSlots, params, addResult, paramsOverrun>>
srvVars == <<wifiMode, httpServer, dnsServer, apCallbackEarly, portalResult>>
mgrVars == <<timeVars, loopVars, heapVars, sessVars, apVars, srvVars>>
auxVars == <<autoVars, hostVars, paramVars, addVars>>
vars == <<scanVars, qualVars, mgrVars, auxVars>>

\* ------------------------------------------------------- platform accessors
\* WiFi.RSSI(i) for an index i of the scan table
WiFi_RSSI(nets, i) == IF i + 1 \in DOMAIN nets THEN nets[i + 1].rssi ELSE 0

\* WiFi.SSID(i): the empty String for an index outside the scan table
WiFi_SSID(nets, i) == IF i + 1 \in DOMAIN nets THEN nets[i + 1].ssid ELSE ""

\* ------------------------------------------------------- getRSSIasQuality
getRSSIasQuality_halved(RSSI) ==
  IF RSSI <= -100 THEN 0
  ELSE IF RSSI >= -50 THEN 100
  ELSE RSSI + 100

getRSSIasQuality(RSSI) ==
  IF RSSI <= -100 THEN 0
  ELSE IF RSSI >= -50 THEN 100
  ELSE 2 * (RSSI + 100)

\* ------------------------------------------------------- scanWifiNetworks
\* for (int i = 0; i < n; i++) indices[i] = i;
InitIndices(n) == [k \in 1..n |-> k - 1]

Swap_overwrite(ind, a, b) == [ind EXCEPT ![a] = ind[b]]

\* std::swap(indices[i], indices[j]) on 1-based positions
Swap(ind, a, b) == [ind EXCEPT ![a] = ind[b], ![b] = ind[a]]

\* inner loop of the RSSI sort: for (j = i + 1; j < n; j++) (positions 1-based)
RECURSIVE SortInner(_, _, _, _)
SortInner(nets, ind, i, j) ==
  IF j > Len(ind) THEN ind
  ELSE SortInner(nets,
                 IF WiFi_RSSI(nets, ind[j]) > WiFi_RSSI(nets, ind[i])
                   THEN Swap(ind, i, j) ELSE ind,
                 i, j + 1)

\* outer loop of the RSSI sort: for (i = 0; i < n; i++)
RECURSIVE SortOuter(_, _, _)
SortOuter(nets, ind, i) ==
  IF i > Len(ind) THEN ind
  ELSE SortOuter(nets, SortInner(nets, ind, i, i + 1), i + 1)

RSSISort_unsorted(nets, ind) == ind

RSSISort(nets, ind) == SortOuter(nets, ind, 1)

\* inner loop of the duplicate removal: every later slot whose SSID equals
\* cssid gets -1 (a slot already -1 is looked up too: WiFi.SSID(-1))
RECURSIVE DupInner(_, _, _, _)
DupInner(nets, ind, cssid, j) ==
  IF j > Len(ind) THEN ind
  ELSE DupInner(nets,
                IF cssid = WiFi_SSID(nets, ind[j])
                  THEN [ind EXCEPT ![j] = SENTINEL] ELSE ind,
                cssid, j + 1)

\* outer loop of the duplicate removal
RECURSIVE DupOuter(_, _, _)
DupOuter(nets, ind, i) ==
  IF i > Len(ind) THEN ind
  ELSE IF ind[i] = SENTINEL THEN DupOuter(nets, ind, i + 1)
  ELSE DupOuter(nets, DupInner(nets, ind, WiFi_SSID(nets, ind[i]), i + 1), i + 1)

RemoveDup_keepAll(nets, ind, removeDup) == ind

\* if (_removeDuplicateAPs) { ... }
RemoveDup(nets, ind, removeDup) ==
  IF removeDup THEN DupOuter(nets, ind, 1) ELSE ind

\* the quality loop: a slot is kept when
\*   _minimumQuality == -1 || _minimumQuality < quality
QualityFilter(nets, ind, minQ) ==
  [k \in DOMAIN ind |->
     IF ind[k] = SENTINEL THEN SENTINEL
     ELSE IF ~(minQ = -1 \/ minQ < getRSSIasQuality(WiFi_RSSI(nets, ind[k])))
            THEN SENTINEL
            ELSE ind[k]]

\* the whole of scanWifiNetworks(&ptr) as the handlers call it:
\*   ret     the value returned
\*   ptrSet  whether *indicesptr was written
\*   alloc   whether a buffer was obtained from malloc (then *indicesptr is it;
\*           when ptrSet and not alloc, *indicesptr is NULL)
\*   data    the slots of that buffer
scanWifiNetworks_keepCount(nets, n, ok, minQ, removeDup) ==
  IF n <= 0 THEN [ret |-> 0, ptrSet |-> FALSE, alloc |-> FALSE, data |-> <<>>]
  ELSE IF ~ok THEN [ret |-> n, ptrSet |-> TRUE, alloc |-> FALSE, data |-> <<>>]
  ELSE [ret |-> n, ptrSet |-> TRUE, alloc |-> TRUE,
        data |-> QualityFilter(nets,
                   RemoveDup(nets, RSSISort(nets, InitIndices(n)), removeDup),
                   minQ)]

scanWifiNetworks(nets, n, ok, minQ, removeDup) ==
  IF n <= 0 THEN [ret |-> 0, ptrSet |-> FALSE, alloc |-> FALSE, data |-> <<>>]
  ELSE IF ~ok THEN [ret |-> 0, ptrSet |-> TRUE, alloc |-> FALSE, data |-> <<>>]
  ELSE [ret |-> n, ptrSet |-> TRUE, alloc |-> TRUE,
        data |-> QualityFilter(nets,
                   RemoveDup(nets, RSSISort(nets, InitIndices(n)), removeDup),
                   minQ)]

\* ---- the JSON array of handleScan, as its sequence of pieces
\* page += F(", ")
Separator == [tok |-> ", ", idx |-> SENTINEL]
\* page += item, the JSON_ITEM filled in for network k
Item(k) == [tok |-> "item", idx |-> k]

NeedsSeparator_always(i) == TRUE

\* if (i != 0) page += F(", ");
NeedsSeparator(i) == i # 0

\* for (int i = 0; i < n; i++) { if (indices[i] == -1) continue; ... }
\* from slot i on; slot i of the code is ind[i + 1]
RECURSIVE PageFrom(_, _, _)
PageFrom(ind, n, i) ==
  IF i >= n THEN <<>>
  ELSE IF ind[i + 1] = SENTINEL THEN PageFrom(ind, n, i + 1)
  ELSE (IF NeedsSeparator(i) THEN <<Separator>> ELSE <<>>)
         \o <<Item(ind[i + 1])>> \o PageFrom(ind, n, i + 1)

ScanPage(ind, n) == PageFrom(ind, n, 0)

\* ------------------------------------------------------------ initial state
\* the scan tables the platform can hold after WiFi.scanNetworks() returned n
Snapshots(n) == IF n <= 0 THEN {<<>>} ELSE [1..n -> Network]

NULL == 0
NoScan == [by |-> "none", count |-> 0, ok |-> TRUE, ret |-> 0, alloc |-> NULL,
           ptr |-> NULL, freed |-> NULL, readOK |-> TRUE, json |-> <<>>]

\* the manager after its constructor (networkIndices = NULL), with the
\* member defaults: no timeout, no stop, nothing allocated
MgrInit ==
  /\ pc = "idle"
  /\ now = 0
  /\ configPortalStart = 0
  /\ configPortalTimeout = 0
  /\ configuredTimeout = 0
  /\ connect = FALSE
  /\ stopConfigPortal = FALSE
  /\ TimedOut = FALSE
  /\ shouldBreakAfterConfig = FALSE
  /\ wifiStatus = "WL_DISCONNECTED"
  /\ exitBy = "none"
  /\ served = {}
  /\ nextBuf = 1
  /\ bufFrees = <<>>
  /\ bufData = <<>>
  /\ networkIndices = NULL
  /\ numberOfNetworks = 0
  /\ wildFree = FALSE
  /\ lastScan = NoScan
  /\ savecallback = FALSE
  /\ saveCallbacks = 0
  /\ submitted = FALSE
  /\ fallbackAttempts = 0
  /\ apPasswordMember = NoPassword
  /\ softAP = "off"
  /\ wifiMode = "STA"
  /\ httpServer = "none"
  /\ dnsServer = "none"
  /\ apCallbackEarly = TRUE
  /\ portalResult = "none"
  /\ apCallbacks = 0

\* the sketch passes no access-point password (apPassword = NULL)
OpenPortalSketch == apPassword = NoPassword /\ apcallback = FALSE

\* no call of autoConnect under way
AutoIdle ==
  /\ acPhase = "off"
  /\ acStartedAt = 0
  /\ acResult = FALSE

\* no call of getRFC952_hostname under way
HostIdle ==
  /\ iHostname = <<>>
  /\ RFC952_hostname = <<>>
  /\ hostDone = FALSE

\* no custom parameter
ParamIdle ==
  /\ pLength = 0
  /\ pValue = <<>>
  /\ pArg = <<>>
  /\ pPhase = "off"

\* the parameter array is not looked at
AddIdle ==
  /\ paramsCount = 0
  /\ max_params = 0
  /\ paramsSlots = 0
  /\ params = <<>>
  /\ addResult = "none"
  /\ paramsOverrun = FALSE

\* no call of scanWifiNetworks under way
ScanIdle ==
  /\ networks = <<>>
  /\ scanCount = 0
  /\ mallocOK = TRUE
  /\ minimumQuality = -1
  /\ removeDuplicateAPs = TRUE
  /\ phase = "idle"
  /\ indices = <<>>
  /\ ptrSet = FALSE
  /\ retN = 0
  /\ jsonPage = <<>>

\* no call of getRSSIasQuality under way
QualIdle ==
  /\ rssiIn = 0
  /\ qualityOut = 0
  /\ qualityDone = FALSE

\* --------------------------------------- scanWifiNetworks, phase by phase
\* a call of scanWifiNetworks on any scan snapshot and any configuration
ScanInit ==
  /\ scanCount \in WIFI_SCAN_FAILED..MaxNetworks
  /\ networks \in Snapshots(scanCount)
  /\ mallocOK \in BOOLEAN
  /\ minimumQuality \in QualityFloors
  /\ removeDuplicateAPs \in BOOLEAN
  /\ phase = "call"
  /\ indices = <<>>
  /\ ptrSet = FALSE
  /\ retN = 0
  /\ jsonPage = <<>>
  /\ QualIdle
  /\ MgrInit
  /\ OpenPortalSketch
  /\ AutoIdle /\ HostIdle /\ ParamIdle /\ AddIdle

\* int n = WiFi.scanNetworks(); if (n <= 0) return 0;
ScanNone ==
  /\ phase = "call"
  /\ scanCount <= 0
  /\ phase' = "returned"
  /\ retN' = 0
  /\ UNCHANGED <<networks, scanCount, mallocOK, minimumQuality,
                 removeDuplicateAPs, indices, ptrSet>>
  /\ UNCHANGED jsonPage
  /\ UNCHANGED <<qualVars, mgrVars, auxVars>>

\* malloc fails: *indicesptr = NULL; return 0;
ScanNoMemory ==
  /\ phase = "call"
  /\ scanCount > 0
  /\ ~mallocOK
  /\ phase' = "returned"
  /\ ptrSet' = TRUE
  /\ retN' = 0
  /\ UNCHANGED <<networks, scanCount, mallocOK, minimumQuality,
                 removeDuplicateAPs, indices>>
  /\ UNCHANGED jsonPage
  /\ UNCHANGED <<qualVars, mgrVars, auxVars>>

\* malloc succeeds: *indicesptr = indices; indices[i] = i
ScanAlloc ==
  /\ phase = "call"
  /\ scanCount > 0
  /\ mallocOK
  /\ phase' = "filled"
  /\ ptrSet' = TRUE
  /\ indices' = InitIndices(scanCount)
  /\ UNCHANGED <<networks, scanCount, mallocOK, minimumQuality,
                 removeDuplicateAPs, retN>>
  /\ UNCHANGED jsonPage
  /\ UNCHANGED <<qualVars, mgrVars, auxVars>>

\* the RSSI sort
ScanSort ==
  /\ phase = "filled"
  /\ phase' = "sorted"
  /\ indices' = RSSISort(networks, indices)
  /\ UNCHANGED <<networks, scanCount, mallocOK, minimumQuality,
                 removeDuplicateAPs, ptrSet, retN>>
  /\ UNCHANGED jsonPage
  /\ UNCHANGED <<qualVars, mgrVars, auxVars>>

\* the duplicate removal
ScanRemoveDup ==
  /\ phase = "sorted"
  /\ phase' = "deduped"
  /\ indices' = RemoveDup(networks, indices, removeDuplicateAPs)
  /\ UNCHANGED <<networks, scanCount, mallocOK, minimumQuality,
                 removeDuplicateAPs, ptrSet, retN>>
  /\ UNCHANGED jsonPage
  /\ UNCHANGED <<qualVars, mgrVars, auxVars>>

\* the quality loop and return (n)
ScanQuality ==
  /\ phase = "deduped"
  /\ phase' = "returned"
  /\ indices' = QualityFilter(networks, indices, minimumQuality)
  /\ retN' = scanCount
  /\ UNCHANGED <<networks, scanCount, mallocOK, minimumQuality,
                 removeDuplicateAPs, ptrSet>>
  /\ UNCHANGED jsonPage
  /\ UNCHANGED <<qualVars, mgrVars, auxVars>>

\* ---- handleScan's loop over the result: the entries of "Access_Points"
ScanToJSON ==
  /\ phase = "returned"
  /\ phase' = "sent"
  /\ jsonPage' = ScanPage(indices, retN)
  /\ UNCHANGED <<networks, scanCount, mallocOK, minimumQuality,
                 removeDuplicateAPs, indices, ptrSet, retN>>
  /\ UNCHANGED <<qualVars, mgrVars, auxVars>>

ScanNext ==
  \/ ScanNone
  \/ ScanNoMemory
  \/ ScanAlloc
  \/ ScanSort
  \/ ScanRemoveDup
  \/ ScanQuality
  \/ ScanToJSON

SpecScan == ScanInit /\ [][ScanNext]_vars

\* ------------------------------------------------ getRSSIasQuality, called
QualInit ==
  /\ rssiIn \in (0 - RSSISpan)..0
  /\ qualityOut = 0
  /\ qualityDone = FALSE
  /\ ScanIdle
  /\ MgrInit
  /\ OpenPortalSketch
  /\ AutoIdle /\ HostIdle /\ ParamIdle /\ AddIdle

CallQuality ==
  /\ ~qualityDone
  /\ qualityOut' = getRSSIasQuality(rssiIn)
  /\ qualityDone' = TRUE
  /\ UNCHANGED <<rssiIn, scanVars, mgrVars, auxVars>>

QualNext == CallQuality

SpecQuality == QualInit /\ [][QualNext]_vars

\* ============================================================== the manager
\* the seconds the sketch passes to setConfigPortalTimeout
PortalTimeoutSeconds == {0, 40}
\* what WiFi.scanNetworks() returns while the portal is open
PortalScanCounts == {WIFI_SCAN_FAILED, 0, 2}
\* ... and what it returns where no access point is in range
EmptyScanCounts == {WIFI_SCAN_FAILED, 0}
\* the access points in range while the portal is open
AirTable == << [ssid |-> "A", rssi |-> -75], [ssid |-> "B", rssi |-> -50],
               [ssid |-> "A", rssi |-> -50] >>
PortalSnapshot(n) ==
  IF n <= 0 THEN <<>> ELSE [k \in 1..n |-> AirTable[((k - 1) % 3) + 1]]

\* a pointer value that malloc never returned
WILD == -1
\* the values an uninitialised pointer on the stack can hold: NULL, garbage,
\* or the address of any buffer malloc returned earlier
UninitPointers == {NULL, WILD} \cup (1..(nextBuf - 1))

InPortal == pc \in {"loop", "serve", "connect", "stop", "exit"}

Min(a, b) == IF a < b THEN a ELSE b

\* free(p) for a non-null p
FreesAfter(frees, p) ==
  IF p \in DOMAIN frees THEN [frees EXCEPT ![p] = Min(@ + 1, 2)] ELSE frees

\* whether indices[0..n-1] can be read through p: p is a live buffer of n slots
Readable(frees, data, p, n) ==
  n = 0 \/ (p \in DOMAIN frees /\ frees[p] = 0 /\ Len(data[p]) = n)

\* malloc succeeds or fails; it fails once MaxBufs buffers were handed out
MallocOutcomes == IF nextBuf <= MaxBufs THEN BOOLEAN ELSE {FALSE}

\* ---- the sketch configures the manager
setConfigPortalTimeout(seconds) ==
  /\ pc = "idle"
  /\ configPortalTimeout' = seconds * 1000
  /\ configuredTimeout' = seconds * 1000
  /\ UNCHANGED <<now, configPortalStart>>
  /\ UNCHANGED <<loopVars, heapVars, scanVars, qualVars, sessVars, apVars, srvVars, auxVars>>

setBreakAfterConfig(shouldBreak) ==
  /\ pc = "idle"
  /\ shouldBreakAfterConfig' = shouldBreak
  /\ UNCHANGED <<pc, connect, stopConfigPortal, TimedOut, wifiStatus, exitBy, served>>
  /\ UNCHANGED <<timeVars, heapVars, scanVars, qualVars, sessVars, apVars, srvVars, auxVars>>

\* ---- setAPCallback(func): func is a function or NULL
setAPCallback(func) ==
  /\ pc = "idle"
  /\ acPhase = "off"
  /\ apcallback' = func
  /\ UNCHANGED <<apPassword, apPasswordMember, softAP, apCallbacks>>
  /\ UNCHANGED <<timeVars, loopVars, heapVars, sessVars, srvVars, scanVars, qualVars, auxVars>>

\* ---- setSaveConfigCallback(func): func is a function or NULL
setSaveConfigCallback(func) ==
  /\ pc = "idle"
  /\ savecallback' = func
  /\ UNCHANGED <<saveCallbacks, submitted, fallbackAttempts>>
  /\ UNCHANGED <<timeVars, loopVars, heapVars, scanVars, qualVars, apVars, srvVars, auxVars>>

CheckedPassword_upTo64(pw) ==
  IF pw # NoPassword /\ (pw < 8 \/ pw > 64) THEN NoPassword ELSE pw

\* setupConfigPortal: a password shorter than 8 or longer than 63 characters
\* is dropped (_apPassword = NULL)
CheckedPassword(pw) ==
  IF pw # NoPassword /\ (pw < 8 \/ pw > 63) THEN NoPassword ELSE pw

\* a server of the portal is listening
ServerRunning == httpServer = "running" \/ dnsServer = "running"

\* ---- startConfigPortal up to its service loop, setupConfigPortal included
startConfigPortal ==
  /\ pc = "idle"
  /\ connect' = FALSE
  /\ stopConfigPortal' = FALSE
  /\ configPortalStart' = now
  /\ TimedOut' = TRUE
  /\ exitBy' = "none"
  /\ served' = {}
  /\ pc' = "loop"
  /\ UNCHANGED <<now, configPortalTimeout, configuredTimeout>>
  /\ saveCallbacks' = 0
  /\ submitted' = FALSE
  /\ fallbackAttempts' = 0
  /\ apPasswordMember' = CheckedPassword(apPassword)
  /\ softAP' = IF apPasswordMember' # NoPassword THEN "secured" ELSE "open"
  /\ UNCHANGED apPassword
  /\ apCallbacks' = IF apcallback THEN apCallbacks + 1 ELSE apCallbacks
  /\ wifiMode' = IF wifiStatus = "WL_CONNECTED" THEN "AP_STA" ELSE "AP"
  /\ apCallbackEarly' = IF apcallback
                           THEN apCallbackEarly /\ ~ServerRunning
                           ELSE apCallbackEarly
  /\ httpServer' = "running"
  /\ dnsServer' = "running"
  /\ UNCHANGED portalResult
  /\ UNCHANGED <<shouldBreakAfterConfig, wifiStatus, savecallback, apcallback>>
  /\ UNCHANGED <<heapVars, scanVars, qualVars, auxVars>>

LoopCondition_inclusive ==
  configPortalTimeout = 0 \/ now <= configPortalStart + configPortalTimeout

\* while (_configPortalTimeout == 0 || millis() < _configPortalStart + _configPortalTimeout)
LoopCondition ==
  configPortalTimeout = 0 \/ now < configPortalStart + configPortalTimeout

LoopEnter ==
  /\ pc = "loop"
  /\ LoopCondition
  /\ pc' = "serve"
  /\ UNCHANGED <<connect, stopConfigPortal, TimedOut, shouldBreakAfterConfig,
                 wifiStatus, exitBy, served>>
  /\ UNCHANGED <<timeVars, heapVars, scanVars, qualVars, sessVars, apVars, srvVars, auxVars>>

LoopTimeout ==
  /\ pc = "loop"
  /\ ~LoopCondition
  /\ pc' = "exit"
  /\ exitBy' = "time"
  /\ UNCHANGED <<connect, stopConfigPortal, TimedOut, shouldBreakAfterConfig,
                 wifiStatus, served>>
  /\ UNCHANGED <<timeVars, heapVars, scanVars, qualVars, sessVars, apVars, srvVars, auxVars>>

\* ---- server->handleClient(): one request, or none
\* what every handler shares: it runs inside handleClient and is logged
Handled(page) ==
  /\ pc = "serve"
  /\ pc' = "connect"
  /\ served' = served \cup {page}
  /\ UNCHANGED <<now, configPortalStart, configuredTimeout>>
  /\ UNCHANGED <<stopConfigPortal, TimedOut, shouldBreakAfterConfig, wifiStatus, exitBy>>
  /\ UNCHANGED <<savecallback, saveCallbacks, fallbackAttempts>>
  /\ UNCHANGED <<scanVars, qualVars, apVars, srvVars, autoVars, hostVars, addVars>>

NoRequest ==
  /\ pc = "serve"
  /\ pc' = "connect"
  /\ UNCHANGED <<connect, stopConfigPortal, TimedOut, shouldBreakAfterConfig,
                 wifiStatus, exitBy, served>>
  /\ UNCHANGED <<timeVars, heapVars, scanVars, qualVars, sessVars, apVars, srvVars, auxVars>>

handleRoot ==
  /\ Handled("/")
  /\ configPortalTimeout' = 0
  /\ UNCHANGED <<connect, submitted, paramVars, heapVars>>

handleInfo_restoresDefault ==
  /\ Handled("/i")
  /\ configPortalTimeout' = DEFAULT_PORTAL_TIMEOUT
  /\ UNCHANGED <<connect, submitted, paramVars, heapVars>>

handleInfo ==
  /\ Handled("/i")
  /\ configPortalTimeout' = 0
  /\ UNCHANGED <<connect, submitted, paramVars, heapVars>>

handleState ==
  /\ Handled("/state")
  /\ UNCHANGED <<configPortalTimeout, connect, submitted, paramVars, heapVars>>

\* ---- custom parameters (ESP_WMParameter)
\* the terminator of a C string
NUL == "NUL"
ParamChars == {"x", "y"}
\* the strings of at most n characters
Strings(n) == UNION {[1..k -> ParamChars] : k \in 0..n}

\* ESP_WMParameter::init: _value = new char[_length + 1], zeroed, then
\* strncpy(_value, defaultValue, _length)
ESP_WMParameter_init(defaultValue, length) ==
  [i \in 1..(length + 1) |->
     IF i <= Len(defaultValue) /\ i <= length THEN defaultValue[i] ELSE NUL]

\* getValue(): the C string the buffer holds
getValue(buf) ==
  LET ends == {i \in 1..Len(buf) : buf[i] = NUL}
      n == IF ends = {} THEN Len(buf)
           ELSE (CHOOSE i \in ends : \A k \in ends : i <= k) - 1
  IN SubSeq(buf, 1, n)

\* String::toCharArray(buf, bufsize): nothing for bufsize 0, otherwise the
\* first bufsize - 1 characters at most, then a terminator
toCharArray(value, buf, bufsize) ==
  IF bufsize = 0 THEN buf
  ELSE LET n == Min(bufsize - 1, Len(value))
       IN [i \in 1..Len(buf) |->
             IF i <= n THEN value[i] ELSE IF i = n + 1 THEN NUL ELSE buf[i]]

\* the parameter loop of handleWifiSave, for the one parameter there is:
\* value.toCharArray(_params[i]->_value, _params[i]->_length)
SaveParameter(value) ==
  IF pPhase \in {"constructed", "saved"}
    THEN /\ pValue' = toCharArray(value, pValue, pLength)
         /\ pArg' = value
         /\ pPhase' = "saved"
         /\ UNCHANGED pLength
    ELSE UNCHANGED paramVars

handleWifiSave ==
  /\ Handled("/wifisave")
  /\ \E value \in Strings(pLength) : SaveParameter(value)
  /\ connect' = TRUE
  /\ submitted' = TRUE
  /\ configPortalTimeout' = DEFAULT_PORTAL_TIMEOUT
  /\ UNCHANGED heapVars

handleServerClose ==
  /\ Handled("/close")
  /\ configPortalTimeout' = DEFAULT_PORTAL_TIMEOUT
  /\ UNCHANGED <<connect, submitted, paramVars, heapVars>>

\* numberOfNetworks = scanWifiNetworks(&networkIndices); then the slots
\* networkIndices[0 .. numberOfNetworks-1] are read; nothing is freed.
\* n is what WiFi.scanNetworks() returns, ok whether malloc succeeds.
handleWifi(n, ok) ==
  /\ Handled("/wifi")
  /\ configPortalTimeout' = 0
  /\ LET r == scanWifiNetworks(PortalSnapshot(n), n, ok,
                               minimumQuality, removeDuplicateAPs)
         p == IF r.alloc THEN nextBuf
              ELSE IF r.ptrSet THEN NULL ELSE networkIndices
     IN /\ nextBuf' = IF r.alloc THEN nextBuf + 1 ELSE nextBuf
        /\ bufFrees' = IF r.alloc THEN Append(bufFrees, 0) ELSE bufFrees
        /\ bufData' = IF r.alloc THEN Append(bufData, r.data) ELSE bufData
        /\ networkIndices' = p
        /\ numberOfNetworks' = r.ret
        /\ lastScan' = [by |-> "/wifi", count |-> n, ok |-> ok, ret |-> r.ret,
                        alloc |-> IF r.alloc THEN nextBuf ELSE NULL,
                        ptr |-> p, freed |-> NULL,
                        readOK |-> Readable(bufFrees', bufData', p, r.ret),
                        json |-> <<>>]
  /\ UNCHANGED <<connect, submitted, paramVars, wildFree>>

\* int *indices; (not initialised) n = scanWifiNetworks(&indices); the slots
\* indices[0 .. n-1] are read; if (indices) free(indices);
\* u is the value the uninitialised local happens to hold.
handleScan(n, ok, u) ==
  /\ Handled("/scan")
  /\ configPortalTimeout' = 0
  /\ LET r == scanWifiNetworks(PortalSnapshot(n), n, ok,
                               minimumQuality, removeDuplicateAPs)
         p == IF r.alloc THEN nextBuf
              ELSE IF r.ptrSet THEN NULL ELSE u
         frees == IF r.alloc THEN Append(bufFrees, 0) ELSE bufFrees
         data == IF r.alloc THEN Append(bufData, r.data) ELSE bufData
     IN /\ nextBuf' = IF r.alloc THEN nextBuf + 1 ELSE nextBuf
        /\ bufData' = data
        /\ bufFrees' = IF p # NULL THEN FreesAfter(frees, p) ELSE frees
        /\ wildFree' = (wildFree \/ p = WILD)
        /\ lastScan' = [by |-> "/scan", count |-> n, ok |-> ok, ret |-> r.ret,
                        alloc |-> IF r.alloc THEN nextBuf ELSE NULL,
                        ptr |-> p, freed |-> p,
                        readOK |-> Readable(frees, data, p, r.ret),
                        json |-> ScanPage(r.data, r.ret)]
  /\ UNCHANGED <<connect, submitted, paramVars, networkIndices, numberOfNetworks>>

\* ---- if (connect) { ... connectWifi(_ssid, _pass) ... }
ConnectSkip ==
  /\ pc = "connect"
  /\ ~connect
  /\ pc' = "stop"
  /\ UNCHANGED <<connect, stopConfigPortal, TimedOut, shouldBreakAfterConfig,
                 wifiStatus, exitBy, served>>
  /\ UNCHANGED <<timeVars, heapVars, scanVars, qualVars, sessVars, apVars, srvVars, auxVars>>

SaveCallbackInvoked_always(connRes) == savecallback

\* _savecallback() runs, if set, when the connect succeeded (lines 475-479)
\* or, after a failure, when _shouldBreakAfterConfig is set (lines 483-491)
SaveCallbackInvoked(connRes) ==
  savecallback /\ (connRes = "WL_CONNECTED" \/ shouldBreakAfterConfig)

ConnectAttempt_breaksOnFailure(connRes) ==
  /\ pc = "connect"
  /\ connect
  /\ TimedOut' = FALSE
  /\ wifiStatus' = connRes
  /\ IF connRes = "WL_CONNECTED"
       THEN pc' = "exit" /\ exitBy' = "connected"
       ELSE pc' = "exit" /\ exitBy' = "break"
  /\ saveCallbacks' = IF SaveCallbackInvoked(connRes)
                         THEN Min(saveCallbacks + 1, MaxCallbacks)
                         ELSE saveCallbacks
  /\ submitted' = FALSE
  /\ IF connRes = "WL_CONNECTED"
       THEN wifiMode' \in {wifiMode, "AP_STA"}
       ELSE wifiMode' = "AP"
  /\ UNCHANGED <<httpServer, dnsServer, apCallbackEarly, portalResult>>
  /\ UNCHANGED <<connect, stopConfigPortal, shouldBreakAfterConfig, served>>
  /\ UNCHANGED <<savecallback, fallbackAttempts, apVars>>
  /\ UNCHANGED <<timeVars, heapVars, scanVars, qualVars, auxVars>>

ConnectAttempt(connRes) ==
  /\ pc = "connect"
  /\ connect
  /\ TimedOut' = FALSE
  /\ wifiStatus' = connRes
  /\ IF connRes = "WL_CONNECTED"
       THEN pc' = "exit" /\ exitBy' = "connected"
       ELSE IF shouldBreakAfterConfig
              THEN pc' = "exit" /\ exitBy' = "break"
              ELSE pc' = "stop" /\ exitBy' = exitBy
  /\ saveCallbacks' = IF SaveCallbackInvoked(connRes)
                         THEN Min(saveCallbacks + 1, MaxCallbacks)
                         ELSE saveCallbacks
  /\ submitted' = FALSE
  /\ IF connRes = "WL_CONNECTED"
       THEN wifiMode' \in {wifiMode, "AP_STA"}
       ELSE wifiMode' = "AP"
  /\ UNCHANGED <<httpServer, dnsServer, apCallbackEarly, portalResult>>
  /\ UNCHANGED <<connect, stopConfigPortal, shouldBreakAfterConfig, served>>
  /\ UNCHANGED <<savecallback, fallbackAttempts, apVars>>
  /\ UNCHANGED <<timeVars, heapVars, scanVars, qualVars, auxVars>>

\* ---- if (stopConfigPortal) { stopConfigPortal = false; break; } yield();
StopBreak ==
  /\ pc = "stop"
  /\ stopConfigPortal
  /\ stopConfigPortal' = FALSE
  /\ pc' = "exit"
  /\ exitBy' = "stop"
  /\ UNCHANGED <<connect, TimedOut, shouldBreakAfterConfig, wifiStatus, served>>
  /\ UNCHANGED <<timeVars, heapVars, scanVars, qualVars, sessVars, apVars, srvVars, auxVars>>

StopSkip ==
  /\ pc = "stop"
  /\ ~stopConfigPortal
  /\ pc' = "loop"
  /\ UNCHANGED <<connect, stopConfigPortal, TimedOut, shouldBreakAfterConfig,
                 wifiStatus, exitBy, served>>
  /\ UNCHANGED <<timeVars, heapVars, scanVars, qualVars, sessVars, apVars, srvVars, auxVars>>

\* the stop flag is set from outside the loop
RequestStop ==
  /\ pc \in {"loop", "serve", "connect", "stop"}
  /\ ~stopConfigPortal
  /\ stopConfigPortal' = TRUE
  /\ UNCHANGED <<pc, connect, TimedOut, shouldBreakAfterConfig, wifiStatus,
                 exitBy, served>>
  /\ UNCHANGED <<timeVars, heapVars, scanVars, qualVars, sessVars, apVars, srvVars, auxVars>>

Teardown_keepsDNS(connRes) ==
  /\ pc = "exit"
  /\ wifiStatus' = IF TimedOut THEN connRes ELSE wifiStatus
  /\ (~TimedOut => connRes = wifiStatus)
  /\ pc' = "returned"
  /\ fallbackAttempts' = IF TimedOut THEN fallbackAttempts + 1 ELSE fallbackAttempts
  /\ softAP' = "off"
  /\ wifiMode' = "STA"
  /\ httpServer' = "released"
  /\ dnsServer' = dnsServer
  /\ portalResult' = (wifiStatus' = "WL_CONNECTED")
  /\ UNCHANGED apCallbackEarly
  /\ UNCHANGED <<connect, stopConfigPortal, TimedOut, shouldBreakAfterConfig,
                 exitBy, served>>
  /\ UNCHANGED <<savecallback, saveCallbacks, submitted, apPassword, apPasswordMember,
                 apcallback, apCallbacks>>
  /\ UNCHANGED <<timeVars, heapVars, scanVars, qualVars, auxVars>>

\* ---- after the loop: WiFi.mode(WIFI_STA); if (TimedOut) { WiFi.begin();
\* waitForConnectResult(); } the servers are stopped; return
Teardown(connRes) ==
  /\ pc = "exit"
  /\ wifiStatus' = IF TimedOut THEN connRes ELSE wifiStatus
  /\ (~TimedOut => connRes = wifiStatus)
  /\ pc' = "returned"
  /\ fallbackAttempts' = IF TimedOut THEN fallbackAttempts + 1 ELSE fallbackAttempts
  /\ softAP' = "off"
  /\ wifiMode' = "STA"
  /\ httpServer' = "released"
  /\ dnsServer' = "released"
  /\ portalResult' = (wifiStatus' = "WL_CONNECTED")
  /\ UNCHANGED apCallbackEarly
  /\ UNCHANGED <<connect, stopConfigPortal, TimedOut, shouldBreakAfterConfig,
                 exitBy, served>>
  /\ UNCHANGED <<savecallback, saveCallbacks, submitted, apPassword, apPasswordMember,
                 apcallback, apCallbacks>>
  /\ UNCHANGED <<timeVars, heapVars, scanVars, qualVars, auxVars>>

\* ---- time passes while the portal is open
Tick ==
  /\ InPortal
  /\ now < MaxTicks * TickMs
  /\ now' = now + TickMs
  /\ UNCHANGED <<configPortalStart, configPortalTimeout, configuredTimeout>>
  /\ UNCHANGED <<loopVars, heapVars, scanVars, qualVars, sessVars, apVars, srvVars, auxVars>>

\* ---- ~ESP_WiFiManager: if (networkIndices) free(networkIndices);
Destroy ==
  /\ pc \in {"idle", "returned"}
  /\ pc' = "destroyed"
  /\ bufFrees' = IF networkIndices # NULL
                   THEN FreesAfter(bufFrees, networkIndices) ELSE bufFrees
  /\ UNCHANGED <<nextBuf, bufData, networkIndices, numberOfNetworks, wildFree, lastScan>>
  /\ UNCHANGED <<connect, stopConfigPortal, TimedOut, shouldBreakAfterConfig,
                 wifiStatus, exitBy, served>>
  /\ UNCHANGED <<timeVars, scanVars, qualVars, sessVars, apVars, srvVars, auxVars>>

ConnectResults == {"WL_CONNECTED", "WL_CONNECT_FAILED"}

Init ==
  /\ MgrInit /\ ScanIdle /\ QualIdle /\ OpenPortalSketch
  /\ AutoIdle /\ HostIdle /\ ParamIdle /\ AddIdle

\* The portal session as a whole, with no access point in range: every page
\* handler, the timeout, the connect attempts and the stop flag.
Next ==
  \/ \E seconds \in PortalTimeoutSeconds : setConfigPortalTimeout(seconds)
  \/ \E b \in BOOLEAN : setBreakAfterConfig(b)
  \/ \E func \in BOOLEAN : setSaveConfigCallback(func)
  \/ \E func \in BOOLEAN : setAPCallback(func)
  \/ startConfigPortal
  \/ LoopEnter
  \/ LoopTimeout
  \/ NoRequest
  \/ handleRoot
  \/ \E n \in EmptyScanCounts : handleWifi(n, TRUE)
  \/ handleWifiSave
  \/ handleServerClose
  \/ handleInfo
  \/ handleState
  \/ \E n \in EmptyScanCounts, u \in UninitPointers : handleScan(n, TRUE, u)
  \/ ConnectSkip
  \/ \E connRes \in ConnectResults : ConnectAttempt(connRes)
  \/ StopBreak
  \/ StopSkip
  \/ RequestStop
  \/ \E connRes \in ConnectResults : Teardown(connRes)
  \/ Tick
  \/ Destroy

Spec == Init /\ [][Next]_vars

\* A portal session whose clients request /wifi and /scan, with access points
\* in range and a heap that can run out, up to the destruction of the manager.
HeapNext ==
  \/ startConfigPortal
  \/ LoopEnter
  \/ NoRequest
  \/ \E n \in PortalScanCounts, ok \in MallocOutcomes : handleWifi(n, ok)
  \/ \E n \in PortalScanCounts, ok \in MallocOutcomes, u \in UninitPointers :
       handleScan(n, ok, u)
  \/ ConnectSkip
  \/ StopBreak
  \/ StopSkip
  \/ RequestStop
  \/ \E connRes \in ConnectResults : Teardown(connRes)
  \/ Destroy

SpecHeap == Init /\ [][HeapNext]_vars

\* --------------------------------------------------------------- autoConnect
\* while (millis() - startedAt < 10000) { delay(200); ... }
AUTOCONNECT_WAIT_MS == 10000
AUTOCONNECT_POLL_MS == 200

\* ---- autoConnect up to its polling loop: WiFi.mode(WIFI_STA);
\* startedAt = millis()
autoConnectBegin ==
  /\ pc = "idle"
  /\ acPhase = "off"
  /\ acPhase' = "polling"
  /\ acStartedAt' = now
  /\ UNCHANGED acResult
  /\ UNCHANGED <<hostVars, paramVars, addVars>>
  /\ UNCHANGED <<scanVars, qualVars, mgrVars>>

AutoWaiting_short == now - acStartedAt < AUTOCONNECT_WAIT_MS - AUTOCONNECT_POLL_MS

\* the loop condition millis() - startedAt < 10000
AutoWaiting == now - acStartedAt < AUTOCONNECT_WAIT_MS

\* ---- one iteration: delay(200); if (WiFi.status() == WL_CONNECTED) return true
AutoPoll(status) ==
  /\ acPhase = "polling"
  /\ pc = "idle"
  /\ AutoWaiting
  /\ now' = now + AUTOCONNECT_POLL_MS
  /\ wifiStatus' = status
  /\ IF status = "WL_CONNECTED"
       THEN acPhase' = "connected" /\ acResult' = TRUE
       ELSE UNCHANGED <<acPhase, acResult>>
  /\ UNCHANGED acStartedAt
  /\ UNCHANGED <<configPortalStart, configPortalTimeout, configuredTimeout>>
  /\ UNCHANGED <<pc, connect, stopConfigPortal, TimedOut, shouldBreakAfterConfig,
                 exitBy, served>>
  /\ UNCHANGED <<heapVars, sessVars, apVars, srvVars, scanVars, qualVars>>
  /\ UNCHANGED <<hostVars, paramVars, addVars>>

\* ---- the wait is over: return startConfigPortal(apName, apPassword), the call
AutoOpenPortal ==
  /\ acPhase = "polling"
  /\ ~AutoWaiting
  /\ startConfigPortal

\* ---- ... and its return
AutoReturn ==
  /\ acPhase = "polling"
  /\ pc = "returned"
  /\ acPhase' = "returned"
  /\ acResult' = (wifiStatus = "WL_CONNECTED")
  /\ UNCHANGED acStartedAt
  /\ UNCHANGED <<hostVars, paramVars, addVars>>
  /\ UNCHANGED <<scanVars, qualVars, mgrVars>>

\* what WiFi.status() answers while the station tries the stored network
StationStatuses == {"WL_CONNECTED", "WL_DISCONNECTED"}

AutoInit ==
  /\ MgrInit /\ ScanIdle /\ QualIdle /\ OpenPortalSketch
  /\ AutoIdle /\ HostIdle /\ ParamIdle /\ AddIdle

\* autoConnect from its call to its return, the portal it may open included
AutoNext ==
  \/ \E func \in BOOLEAN : setAPCallback(func)
  \/ autoConnectBegin
  \/ \E status \in StationStatuses : AutoPoll(status)
  \/ AutoOpenPortal
  \/ LoopEnter
  \/ LoopTimeout
  \/ NoRequest
  \/ handleWifiSave
  \/ ConnectSkip
  \/ \E connRes \in ConnectResults : ConnectAttempt(connRes)
  \/ StopBreak
  \/ StopSkip
  \/ RequestStop
  \/ \E connRes \in ConnectResults : Teardown(connRes)
  \/ Tick
  \/ AutoReturn

SpecAuto == AutoInit /\ [][AutoNext]_vars

\* ------------------------------------------------------- getRFC952_hostname
\* the length of the member buffer RFC952_hostname, less its terminator
RFC952_HOSTNAME_MAXLEN == 24
\* host names are tried up to this length, alone and behind a padding that
\* brings them to the length limit
MaxHostLen == 4

AlnumChars == {"a", "7"}
HostChars == AlnumChars \cup {"-", "_"}
isalnum(c) == c \in AlnumChars

HostPadding == [i \in 1..(RFC952_HOSTNAME_MAXLEN - MaxHostLen + 1) |-> "a"]
ShortHostnames == UNION {[1..n -> HostChars] : n \in 1..MaxHostLen}
\* the non-empty arguments: strlen(iHostname) >= 1
Hostnames == ShortHostnames \cup {HostPadding \o h : h \in ShortHostnames}

\* for (i = 0; i < len - 1; i++) if (isalnum(c) || c == '-') copy c
RECURSIVE CopyAllowed(_, _)
CopyAllowed(h, n) ==
  IF n = 0 THEN <<>>
  ELSE IF isalnum(h[n]) \/ h[n] = "-"
         THEN Append(CopyAllowed(h, n - 1), h[n])
         ELSE CopyAllowed(h, n - 1)

\* the whole function, for strlen(h) >= 1; the buffer is zeroed first, so the
\* result ends where the copying stopped
getRFC952_hostname(h) ==
  LET len == IF RFC952_HOSTNAME_MAXLEN < Len(h) THEN RFC952_HOSTNAME_MAXLEN ELSE Len(h)
      kept == CopyAllowed(h, len - 1)
  IN IF isalnum(h[len]) \/ h[len] # "-" THEN Append(kept, h[len]) ELSE kept

HostInit ==
  /\ iHostname \in Hostnames
  /\ RFC952_hostname = <<>>
  /\ hostDone = FALSE
  /\ MgrInit /\ ScanIdle /\ QualIdle /\ OpenPortalSketch
  /\ AutoIdle /\ ParamIdle /\ AddIdle

CallHostname ==
  /\ ~hostDone
  /\ RFC952_hostname' = getRFC952_hostname(iHostname)
  /\ hostDone' = TRUE
  /\ UNCHANGED iHostname
  /\ UNCHANGED <<autoVars, paramVars, addVars>>
  /\ UNCHANGED <<scanVars, qualVars, mgrVars>>

HostNext == CallHostname

SpecHost == HostInit /\ [][HostNext]_vars

\* ------------------------------------------ a custom parameter and /wifisave
\* the largest max length a parameter is created with
MaxParamLen == 3

\* a parameter is about to be constructed with a default value that fits
ParamInit ==
  /\ pLength \in 0..MaxParamLen
  /\ pArg \in Strings(pLength)
  /\ pValue = <<>>
  /\ pPhase = "new"
  /\ MgrInit /\ ScanIdle /\ QualIdle /\ OpenPortalSketch
  /\ AutoIdle /\ HostIdle /\ AddIdle

\* ---- ESP_WMParameter(id, placeholder, defaultValue, length), added to the
\* manager
ParamConstruct ==
  /\ pc = "idle"
  /\ pPhase = "new"
  /\ pValue' = ESP_WMParameter_init(pArg, pLength)
  /\ pPhase' = "constructed"
  /\ UNCHANGED <<pLength, pArg>>
  /\ UNCHANGED <<autoVars, hostVars, addVars>>
  /\ UNCHANGED <<scanVars, qualVars, mgrVars>>

\* the portal serves the save form for a sketch with one custom parameter
ParamNext ==
  \/ ParamConstruct
  \/ pPhase # "new" /\ startConfigPortal
  \/ LoopEnter
  \/ NoRequest
  \/ handleWifiSave
  \/ \E connRes \in ConnectResults : ConnectAttempt(connRes)
  \/ ConnectSkip
  \/ StopSkip
  \/ \E connRes \in ConnectResults : Teardown(connRes)

SpecParam == ParamInit /\ [][ParamNext]_vars

\* ------------------------------------------- the soft-AP and its password
\* the longest access-point password tried
MaxPasswordLen == 65

\* the sketch passes no password or one of any length
APInit ==
  /\ apPassword \in {NoPassword} \cup (0..MaxPasswordLen)
  /\ apcallback = FALSE
  /\ MgrInit /\ ScanIdle /\ QualIdle
  /\ AutoIdle /\ HostIdle /\ ParamIdle /\ AddIdle

\* the portal is opened and runs until it is stopped
APNext ==
  \/ startConfigPortal
  \/ LoopEnter
  \/ NoRequest
  \/ ConnectSkip
  \/ StopSkip
  \/ RequestStop
  \/ StopBreak
  \/ \E connRes \in ConnectResults : Teardown(connRes)

SpecAP == APInit /\ [][APNext]_vars

\* ------------------------------------------------------------ addParameter
\* the number of slots the parameter array starts with and grows by
WIFI_MANAGER_MAX_PARAMS == 10
\* addParameter is called at most this many times
MaxAdds == 45

\* the manager after its constructor: _max_params = WIFI_MANAGER_MAX_PARAMS
\* and an array of that many slots (its malloc succeeded), no parameter yet
AddInit ==
  /\ paramsCount = 0
  /\ max_params = WIFI_MANAGER_MAX_PARAMS
  /\ paramsSlots = WIFI_MANAGER_MAX_PARAMS
  /\ params = <<>>
  /\ addResult = "none"
  /\ paramsOverrun = FALSE
  /\ MgrInit /\ ScanIdle /\ QualIdle /\ OpenPortalSketch
  /\ AutoIdle /\ HostIdle /\ ParamIdle

\* ---- addParameter(p) with the outcome of realloc, should it be called.
\* _params[_paramsCount] = p outside the allocated slots is undefined: the
\* call either goes on (survives = TRUE) or brings the program down.
addParameter(p, reallocOK, survives) ==
  /\ pc = "idle"
  /\ addResult # "crashed"
  /\ paramsCount < MaxAdds
  /\ IF paramsCount = max_params /\ ~reallocOK
       THEN /\ max_params' = max_params + WIFI_MANAGER_MAX_PARAMS
            /\ addResult' = "false"
            /\ UNCHANGED <<paramsCount, paramsSlots, params, paramsOverrun>>
       ELSE /\ max_params' = IF paramsCount = max_params
                               THEN max_params + WIFI_MANAGER_MAX_PARAMS
                               ELSE max_params
            /\ paramsSlots' = IF paramsCount = max_params THEN max_params' ELSE paramsSlots
            /\ IF paramsCount < paramsSlots'
                 THEN /\ params' = Append(params, p)
                      /\ paramsCount' = paramsCount + 1
                      /\ addResult' = "true"
                      /\ UNCHANGED paramsOverrun
                 ELSE /\ paramsOverrun' = TRUE
                      /\ UNCHANGED params
                      /\ IF survives
                           THEN paramsCount' = paramsCount + 1 /\ addResult' = "true"
                           ELSE paramsCount' = paramsCount /\ addResult' = "crashed"
  /\ UNCHANGED <<autoVars, hostVars, paramVars>>
  /\ UNCHANGED <<scanVars, qualVars, mgrVars>>

\* the sketch adds its parameters one after the other; the k-th is called k
AddNext ==
  \E reallocOK \in BOOLEAN, survives \in BOOLEAN :
    addParameter(paramsCount + 1, reallocOK, survives)

SpecAdd == AddInit /\ [][AddNext]_vars

\* =================================================================== claims
\* the slots that survive, in slot order
RECURSIVE Surviving(_)
Surviving(ind) ==
  IF ind = <<>> THEN <<>>
  ELSE IF Head(ind) = SENTINEL THEN Surviving(Tail(ind))
  ELSE <<Head(ind)>> \o Surviving(Tail(ind))

ScanReturnedN == phase = "returned" /\ retN > 0

\* C1: after scanWifiNetworks on a snapshot with n > 0 results, the slots read
\* in order 0..n-1, sentinel slots skipped, give non-increasing RSSI, for
\* every removeDuplicates and minimumQuality.
C1_SurvivorsDescendingRSSI ==
  ScanReturnedN =>
    LET s == Surviving(indices) IN
      \A a, b \in DOMAIN s :
        a < b => WiFi_RSSI(networks, s[a]) >= WiFi_RSSI(networks, s[b])

\* a returned list with three survivors of three different strengths that the
\* platform reported weakest first
C1_Witness ==
  /\ ScanReturnedN
  /\ Len(Surviving(indices)) = 3
  /\ WiFi_RSSI(networks, 0) < WiFi_RSSI(networks, 1)
  /\ WiFi_RSSI(networks, 1) < WiFi_RSSI(networks, 2)

\* C2: with removeDuplicates on, no two surviving slots name results with the
\* same SSID, and a surviving slot names an occurrence whose RSSI is the
\* largest among all scan results with that SSID.
C2_DedupKeepsStrongest ==
  (ScanReturnedN /\ removeDuplicateAPs) =>
    LET s == Surviving(indices) IN
      /\ \A a, b \in DOMAIN s :
           a # b => WiFi_SSID(networks, s[a]) # WiFi_SSID(networks, s[b])
      /\ \A a \in DOMAIN s : \A k \in 0..(scanCount - 1) :
           WiFi_SSID(networks, k) = WiFi_SSID(networks, s[a])
             => WiFi_RSSI(networks, k) <= WiFi_RSSI(networks, s[a])

\* the same SSID was reported twice, the weaker occurrence first, and the
\* stronger one (index 1) is the one that survived
C2_Witness ==
  /\ ScanReturnedN
  /\ removeDuplicateAPs
  /\ scanCount >= 2
  /\ WiFi_SSID(networks, 0) = WiFi_SSID(networks, 1)
  /\ WiFi_RSSI(networks, 0) < WiFi_RSSI(networks, 1)
  /\ \E k \in DOMAIN indices : indices[k] = 1
  /\ \A k \in DOMAIN indices : indices[k] # 0

\* C3: in the quality step a slot that survived deduplication becomes the
\* sentinel if and only if minimumQuality # -1 and its quality is strictly
\* below minimumQuality (a quality equal to minimumQuality is kept).
C3_ExcludedIffStrictlyBelow ==
  [][ (phase = "deduped" /\ phase' = "returned") =>
        \A k \in DOMAIN indices :
          indices[k] # SENTINEL =>
            ( indices'[k] = SENTINEL
                <=> ( minimumQuality # -1
                      /\ getRSSIasQuality(WiFi_RSSI(networks, indices[k]))
                           < minimumQuality ) ) ]_vars

\* C4: getRSSIasQuality gives 0 up to -100, 100 from -50 on, 2 * (RSSI + 100)
\* in between; -100 gives 0, -75 gives 50, -50 gives 100; always within 0..100.
C4_QualityMapping ==
  qualityDone =>
    /\ (rssiIn <= -100 => qualityOut = 0)
    /\ (rssiIn >= -50 => qualityOut = 100)
    /\ (rssiIn > -100 /\ rssiIn < -50 => qualityOut = 2 * (rssiIn + 100))
    /\ (rssiIn = -75 => qualityOut = 50)
    /\ qualityOut \in 0..100

\* the mapping was applied to the middle of the linear range
C4_Witness == qualityDone /\ rssiIn = -75 /\ qualityOut = 50

\* C5: for n > 0 results and a successful allocation scanWifiNetworks returns
\* n and a list of exactly n slots, each -1 or an index in 0..n-1, no index
\* in two slots.
C5_IndexListShape ==
  (phase = "returned" /\ scanCount > 0 /\ mallocOK) =>
    /\ retN = scanCount
    /\ Len(indices) = scanCount
    /\ \A k \in DOMAIN indices :
         indices[k] = SENTINEL \/ indices[k] \in 0..(scanCount - 1)
    /\ \A a, b \in DOMAIN indices :
         (a # b /\ indices[a] = indices[b]) => indices[a] = SENTINEL

\* a returned list of three slots that holds both a sentinel and two indices
\* the sort has moved
C5_Witness ==
  /\ phase = "returned" /\ scanCount = 3 /\ mallocOK
  /\ \E k \in DOMAIN indices : indices[k] = SENTINEL
  /\ Len(Surviving(indices)) = 2
  /\ indices[1] # 0

\* C6: every index buffer scanWifiNetworks allocated is released exactly once
\* by the time the manager is destroyed, whatever /wifi and /scan requests
\* were served: none is left unreleased, none is freed twice.
C6_EveryBufferFreedOnce ==
  pc = "destroyed" => \A b \in DOMAIN bufFrees : bufFrees[b] = 1

\* C7: in every /scan request handleScan calls free only on the buffer that
\* scanWifiNetworks allocated during that request; on the zero-networks path
\* nothing is freed.
C7_ScanFreesOnlyItsOwnBuffer ==
  lastScan.by = "/scan" =>
    \/ lastScan.freed = NULL
    \/ (lastScan.alloc # NULL /\ lastScan.freed = lastScan.alloc)

\* C8: scanWifiNetworks returns 0 without allocating when the platform count
\* is zero or negative, returns 0 when malloc fails, and when it returns
\* n > 0 the caller's pointer is a live buffer of n slots, so the handlers
\* read every slot through a live buffer.
C8_ScanResultUsable ==
  lastScan.by # "none" =>
    /\ (lastScan.count <= 0 => lastScan.ret = 0 /\ lastScan.alloc = NULL)
    /\ (~lastScan.ok => lastScan.ret = 0 /\ lastScan.alloc = NULL)
    /\ (lastScan.ret > 0 =>
          /\ lastScan.alloc # NULL
          /\ lastScan.ptr = lastScan.alloc
          /\ Len(bufData[lastScan.ptr]) = lastScan.ret)
    /\ lastScan.readOK

\* /wifi found two networks and reads them through the second buffer of the
\* session, the first one having been freed by an earlier /scan
C8_Witness ==
  /\ lastScan.by = "/wifi"
  /\ lastScan.ret = 2
  /\ lastScan.ptr = 2
  /\ bufFrees[1] = 1
  /\ lastScan.readOK

\* the pages whose handlers write _configPortalTimeout without submitting
\* credentials
TimeoutPages == {"/", "/wifi", "/i", "/scan", "/close"}

\* C9: with a nonzero timeout T configured, no credentials submitted and no
\* stop requested, the service loop starts no iteration once T has elapsed
\* since the portal was set up, whatever pages were requested.
C9_TimeoutEndsLoop ==
  [][ ( /\ pc = "loop" /\ pc' = "serve"
        /\ configuredTimeout # 0
        /\ ~connect
        /\ ~stopConfigPortal )
      => now < configPortalStart + configuredTimeout ]_vars

\* C9 as amended: the same, provided none of /, /wifi, /i, /scan, /close was
\* requested since the portal was set up (only /state was, or nothing).
C9_TimeoutEndsLoopIfNoPageTouchedIt ==
  [][ ( /\ pc = "loop" /\ pc' = "serve"
        /\ configuredTimeout # 0
        /\ ~connect
        /\ ~stopConfigPortal
        /\ served \cap TimeoutPages = {} )
      => now < configPortalStart + configuredTimeout ]_vars

\* the loop was left because the configured timeout elapsed, /state having
\* been served meanwhile
C9_Witness ==
  /\ pc = "exit" /\ exitBy = "time"
  /\ configuredTimeout # 0
  /\ served = {"/state"}
  /\ ~connect
  /\ now >= configPortalStart + configuredTimeout

\* C10: with the timeout configured as 0 the service loop is never left
\* because of elapsed time, whatever requests were handled.
C10_NoTimeExitWithoutTimeout ==
  configuredTimeout = 0 => exitBy # "time"

\* C10 as amended: with the timeout configured as 0 the loop is left because
\* of elapsed time only after a /wifisave or /close request was handled;
\* otherwise only by a successful connect, break-after-config or a stop.
C10_TimeExitOnlyAfterSaveOrClose ==
  (configuredTimeout = 0 /\ pc \in {"exit", "returned", "destroyed"}
     /\ exitBy # "none") =>
    \/ exitBy \in {"connected", "break", "stop"}
    \/ (exitBy = "time" /\ served \cap {"/wifisave", "/close"} # {})

\* no timeout configured, pages served, more than DEFAULT_PORTAL_TIMEOUT
\* elapsed, and the loop was left by a stop request only
C10_Witness ==
  /\ configuredTimeout = 0
  /\ pc = "returned" /\ exitBy = "stop"
  /\ {"/", "/i", "/scan"} \subseteq served
  /\ now > configPortalStart + DEFAULT_PORTAL_TIMEOUT

\* C11: whenever the service loop ends because the portal timeout elapsed,
\* exactly one stored-credential connect attempt (WiFi.begin() and
\* waitForConnectResult) is made before startConfigPortal returns, also when
\* credentials were submitted and failed earlier in the session.
C11_FallbackAfterEveryTimeExit ==
  (pc = "returned" /\ exitBy = "time") => fallbackAttempts = 1

\* C12: a loop that ended by the stop flag makes no stored-credential connect
\* attempt; that attempt is made only when the loop ended by timeout.
C12_FallbackOnlyAfterTimeExit ==
  (pc = "returned" /\ fallbackAttempts > 0) => exitBy = "time"

\* C13 as stated: after a failed connect attempt with submitted credentials
\* the service loop is not left, for every configuration of the manager.
C13_FailedConnectKeepsPortal ==
  [][(pc = "connect" /\ connect /\ pc' # pc /\ wifiStatus' # "WL_CONNECTED")
       => pc' = "stop"]_vars

\* C13 amended: after a failed connect attempt with submitted credentials the
\* service loop is not left, provided break-after-config is not set; the
\* loop goes on to its stop check and its next iteration.
C13_FailedConnectKeepsPortalUnlessBreak ==
  [][(pc = "connect" /\ connect /\ pc' # pc /\ wifiStatus' # "WL_CONNECTED"
        /\ ~shouldBreakAfterConfig)
       => (pc' = "stop" /\ exitBy' = "none" /\ softAP' # "off")]_vars

C13_Witness ==
  /\ pc = "serve"
  /\ connect /\ ~TimedOut
  /\ wifiStatus = "WL_CONNECT_FAILED"
  /\ ~shouldBreakAfterConfig
  /\ "/wifisave" \in served

\* C14: autoConnect polls the station status every 200 ms for 10 seconds; a
\* poll that sees WL_CONNECTED returns true with no portal opened (no AP
\* callback, no soft-AP, no server); only when the wait has elapsed is the
\* portal opened through startConfigPortal, whose result is returned.
C14_AutoConnectWaitsThenOpensPortal ==
  /\ [](/\ (acPhase = "polling" /\ pc = "idle") =>
             /\ (now - acStartedAt) % AUTOCONNECT_POLL_MS = 0
             /\ now - acStartedAt <= AUTOCONNECT_WAIT_MS
        /\ acPhase = "connected" =>
             /\ acResult = TRUE /\ wifiStatus = "WL_CONNECTED"
             /\ now - acStartedAt <= AUTOCONNECT_WAIT_MS
             /\ pc = "idle" /\ softAP = "off" /\ apCallbacks = 0 /\ served = {}
        /\ (acPhase # "off" /\ pc # "idle") =>
             /\ configPortalStart - acStartedAt >= AUTOCONNECT_WAIT_MS
             /\ apCallbacks = (IF apcallback THEN 1 ELSE 0)
        /\ acPhase = "returned" =>
             /\ pc = "returned"
             /\ acResult = (wifiStatus = "WL_CONNECTED"))
  /\ [][(acPhase = "polling" /\ pc = "idle" /\ ~AutoWaiting) => pc' = "loop"]_vars

C14_Witness ==
  /\ acPhase = "returned"
  /\ acResult = TRUE
  /\ apCallbacks = 1
  /\ configPortalStart - acStartedAt = AUTOCONNECT_WAIT_MS

\* C15: for every non-empty argument the host name getRFC952_hostname
\* produces has only alphanumeric characters and hyphens, neither begins nor
\* ends with a hyphen, and has at most RFC952_HOSTNAME_MAXLEN characters.
C15_HostnameIsRFC952 ==
  hostDone =>
    /\ \A i \in 1..Len(RFC952_hostname) :
         isalnum(RFC952_hostname[i]) \/ RFC952_hostname[i] = "-"
    /\ RFC952_hostname # <<>> =>
         /\ RFC952_hostname[1] # "-"
         /\ RFC952_hostname[Len(RFC952_hostname)] # "-"
    /\ Len(RFC952_hostname) <= RFC952_HOSTNAME_MAXLEN

\* C16: a parameter created with max length L holds its default value of at
\* most L characters unchanged, and after /wifisave getValue() returns the
\* submitted value of at most L characters unchanged.
C16_ParameterRoundTrip ==
  pPhase \in {"constructed", "saved"} =>
    (Len(pArg) <= pLength => getValue(pValue) = pArg)

\* C17: while the portal is open its soft-AP is up; it has a password if
\* and only if the password passed is not NULL and is 8 to 63 characters
\* long, and every other password is dropped and the soft-AP is open.
C17_PasswordUsedIffValidLength ==
  InPortal =>
    /\ softAP \in {"secured", "open"}
    /\ softAP = "secured" <=>
         (apPassword # NoPassword /\ apPassword >= 8 /\ apPassword <= 63)
    /\ softAP = "secured" => apPasswordMember = apPassword
    /\ softAP = "open" => apPasswordMember = NoPassword

C17_Witness ==
  /\ InPortal
  /\ pc = "serve"
  /\ apPassword = 64
  /\ softAP = "open"

\* C18: a connect attempt is made only for a /wifisave submission that was
\* not tried yet: at most one connectWifi per submission, and none after a
\* failed attempt until a new submission arrives.
C18_ConnectOnlyOnNewSubmission ==
  [][(pc = "connect" /\ connect /\ pc' # pc) => submitted]_vars

\* C20: in one startConfigPortal call the save callback runs at most once,
\* only after /wifisave set the connect flag and a connect attempt was made,
\* and the loop is left right after it; it never runs on a timeout or stop
\* exit.
C20_SaveCallbackOnceOnExit ==
  /\ saveCallbacks <= 1
  /\ saveCallbacks = 1 =>
       /\ savecallback
       /\ "/wifisave" \in served /\ connect /\ ~TimedOut
       /\ pc \in {"exit", "returned", "destroyed"}
       /\ exitBy \in {"connected", "break"}
  /\ (pc \in {"exit", "returned"} /\ exitBy \in {"time", "stop"}) => saveCallbacks = 0

C20_Witness ==
  /\ saveCallbacks = 1
  /\ pc = "returned"
  /\ exitBy = "connected"

\* C19: whatever growth allocations fail, the parameter count never exceeds
\* the slots really allocated, so no addParameter writes outside the array.
C19_CountWithinAllocatedSlots ==
  /\ paramsCount <= paramsSlots
  /\ ~paramsOverrun

\* C21: whenever startConfigPortal has returned, by whichever exit, the HTTP
\* and DNS servers are stopped and released, the WiFi mode is station again,
\* the AP callback (if set) ran exactly once and before any server was
\* started, and the value returned is true exactly when the station status
\* is WL_CONNECTED.
C21_ReturnLeavesStationOnly ==
  pc = "returned" =>
    /\ exitBy \in {"connected", "break", "stop", "time"}
    /\ httpServer = "released" /\ dnsServer = "released"
    /\ wifiMode = "STA"
    /\ apCallbacks = (IF apcallback THEN 1 ELSE 0)
    /\ apCallbackEarly
    /\ portalResult = (wifiStatus = "WL_CONNECTED")

C21_Witness ==
  /\ pc = "returned"
  /\ exitBy = "break"
  /\ apcallback /\ apCallbacks = 1
  /\ portalResult = FALSE
  /\ "/wifisave" \in served

\* the pieces alternate entry, separator, entry, ..., entry
WellSeparated(pg) ==
  /\ Len(pg) = 0 \/ Len(pg) % 2 = 1
  /\ \A k \in 1..Len(pg) : (pg[k] = Separator) <=> (k % 2 = 0)

\* the networks of the entries, in order
RECURSIVE Entries(_)
Entries(pg) ==
  IF pg = <<>> THEN <<>>
  ELSE IF Head(pg) = Separator THEN Entries(Tail(pg))
  ELSE <<Head(pg).idx>> \o Entries(Tail(pg))

\* C22: after scanWifiNetworks, if slot 0 is the sentinel every slot is; so
\* the JSON array of handleScan has one entry per surviving slot, a separator
\* exactly between consecutive entries and none before the first, for every
\* scan snapshot, minimumQuality and removeDuplicates.
C22_SeparatorsOnlyBetweenEntries ==
  /\ (phase \in {"returned", "sent"} /\ retN > 0 /\ indices[1] = SENTINEL) =>
       \A i \in 1..Len(indices) : indices[i] = SENTINEL
  /\ phase = "sent" =>
       /\ WellSeparated(jsonPage)
       /\ Entries(jsonPage) = Surviving(SubSeq(indices, 1, retN))

C22_Witness ==
  /\ phase = "sent"
  /\ retN = 3
  /\ indices[1] # SENTINEL /\ indices[2] = SENTINEL /\ indices[3] # SENTINEL
  /\ Len(jsonPage) = 3

====
